---- MODULE Spec2Model ----
(***************************************************************************)
(* tomata: a Pomodoro timer.  The model covers the settings record         *)
(* (src/src/settings.rs), the timer state machine (src/src/state.rs) and   *)
(* the timer-event handler that drives it (src/src/widget.rs).             *)
(*                                                                         *)
(* Durations are whole seconds (the program only ever builds them with     *)
(* Duration::from_secs).  The operations of Settings and TomataState are   *)
(* operators from the old value to the new value; each action applies one  *)
(* of them to the application data, the way a test, a button or the timer  *)
(* handler calls it.                                                       *)
(***************************************************************************)
EXTENDS Integers, Sequences, FiniteSets, TLC

\* ------------------------------------------------------------------ bounds
MaxDuration == 1        \* period durations range over 0..MaxDuration
MaxValue == 1           \* arguments of the increase/decrease calls
MaxShortBreaks == 2     \* short_breaks_number ranges over 0..MaxShortBreaks

\* elapsed_time is capped one above the longest period by the guards
MaxElapsed == MaxDuration + 1

\* short_breaks_finished is capped at the largest configurable count by the guards
MaxFinished == MaxShortBreaks
\* one full round Work .. LongBreak, Work of the largest configurable count
MaxCycles == 2 * MaxShortBreaks + 3

\* --------------------------------------------------------------- constants
SECOND_S == 1
ZERO == 0
FINISHING_WINDOW_S == 5

Period == {"Work", "ShortBreak", "LongBreak"}
NoPeriod == "None"

Values == 0..MaxValue

VARIABLES
    data,       \* the TomataState the widgets share
    op,         \* the operation that produced the current state
    history,    \* <<period, short_breaks_finished>> after each call, while
                \* only cycle_to_next_period has been called; <<>> otherwise
    notified,   \* the period the last operation sent a notification for
    beeped,     \* whether the last operation requested the ending sound
    file,       \* settings.json on disk
    result,     \* what the last load, save or notification gave back
    alerts      \* the number of beep threads still running

vars == <<data, op, history, notified, beeped, file, result, alerts>>

\* the operations of the timer and of the settings leave the disk alone; the
\* beep threads and the notification service are followed in EffectSpec only
storage == <<file, result, alerts>>

\* ---------------------------------------------------------------- Settings
make_tick_interval == SECOND_S

SettingsValues ==
    [work_period : 0..MaxDuration,
     short_break_period : 0..MaxDuration,
     long_break_period : 0..MaxDuration,
     short_breaks_number : 0..MaxShortBreaks,
     long_breaks_are_included : BOOLEAN,
     next_period_starts_automatically : BOOLEAN,
     system_notifications_are_enabled : BOOLEAN,
     period_ending_sound_is_enabled : BOOLEAN]

convert_period_to_duration(settings, period) ==
    CASE period = "Work" -> settings.work_period
      [] period = "ShortBreak" -> settings.short_break_period
      [] period = "LongBreak" -> settings.long_break_period

\* faulty variant: the ShortBreak arm writes the long break (a copied line)
increase_period_duration_wrong_field(settings, period, value) ==
    CASE period = "Work" ->
            [settings EXCEPT !.work_period = settings.work_period + value]
      [] period = "ShortBreak" ->
            [settings EXCEPT !.long_break_period = settings.short_break_period + value]
      [] period = "LongBreak" ->
            [settings EXCEPT !.long_break_period = settings.long_break_period + value]

increase_period_duration(settings, period, value) ==
    CASE period = "Work" ->
            [settings EXCEPT !.work_period = settings.work_period + value]
      [] period = "ShortBreak" ->
            [settings EXCEPT !.short_break_period = settings.short_break_period + value]
      [] period = "LongBreak" ->
            [settings EXCEPT !.long_break_period = settings.long_break_period + value]

\* faulty variant: subtracts without the comparison that clamps at zero
decrease_period_duration_unclamped(settings, period, value) ==
    CASE period = "Work" ->
            [settings EXCEPT !.work_period = settings.work_period - value]
      [] period = "ShortBreak" ->
            [settings EXCEPT !.short_break_period = settings.short_break_period - value]
      [] period = "LongBreak" ->
            [settings EXCEPT !.long_break_period = settings.long_break_period - value]

decrease_period_duration(settings, period, value) ==
    CASE period = "Work" ->
            IF value > settings.work_period
            THEN [settings EXCEPT !.work_period = 0]
            ELSE [settings EXCEPT !.work_period = settings.work_period - value]
      [] period = "ShortBreak" ->
            IF value > settings.short_break_period
            THEN [settings EXCEPT !.short_break_period = 0]
            ELSE [settings EXCEPT !.short_break_period = settings.short_break_period - value]
      [] period = "LongBreak" ->
            IF value > settings.long_break_period
            THEN [settings EXCEPT !.long_break_period = 0]
            ELSE [settings EXCEPT !.long_break_period = settings.long_break_period - value]

get_short_breaks_number(settings) == settings.short_breaks_number

increase_short_breaks_number(settings, value) ==
    [settings EXCEPT !.short_breaks_number = settings.short_breaks_number + value]

\* faulty variant: subtracts without the comparison that clamps at zero
decrease_short_breaks_number_unclamped(settings, value) ==
    [settings EXCEPT !.short_breaks_number = settings.short_breaks_number - value]

decrease_short_breaks_number(settings, value) ==
    IF value > settings.short_breaks_number
    THEN [settings EXCEPT !.short_breaks_number = 0]
    ELSE [settings EXCEPT !.short_breaks_number = settings.short_breaks_number - value]

are_long_breaks_included(settings) == settings.long_breaks_are_included

does_next_period_start_automatically(settings) ==
    settings.next_period_starts_automatically

are_system_notifications_enabled(settings) ==
    settings.system_notifications_are_enabled

is_period_ending_sound_enabled(settings) ==
    settings.period_ending_sound_is_enabled

\* ------------------------------------------------------------- TomataState
\* faulty variant: the stopwatch of a fresh state is running
new_running(settings) ==
    [settings |-> settings,
     elapsed_time |-> ZERO,
     current_period |-> "Work",
     stopwatch_is_paused |-> FALSE,
     period_is_finished |-> FALSE,
     short_breaks_finished |-> 0]

new(settings) ==
    [settings |-> settings,
     elapsed_time |-> ZERO,
     current_period |-> "Work",
     stopwatch_is_paused |-> TRUE,
     period_is_finished |-> FALSE,
     short_breaks_finished |-> 0]

is_stopwatch_paused(self) == self.stopwatch_is_paused

is_period_finished(self) == self.period_is_finished

\* faulty variant: a finished period is not started
start_stopwatch_guarded(self) ==
    IF self.period_is_finished THEN self
    ELSE [self EXCEPT !.stopwatch_is_paused = FALSE]

start_stopwatch(self) == [self EXCEPT !.stopwatch_is_paused = FALSE]

\* faulty variant: pausing flips the flag
pause_stopwatch_toggling(self) ==
    [self EXCEPT !.stopwatch_is_paused = ~self.stopwatch_is_paused]

pause_stopwatch(self) == [self EXCEPT !.stopwatch_is_paused = TRUE]

\* faulty variant: leaves the clock of the previous period running on
activate_period_keeps_elapsed(self, period) ==
    [self EXCEPT !.current_period = period,
                 !.period_is_finished = FALSE,
                 !.stopwatch_is_paused =
                     IF self.settings.next_period_starts_automatically
                     THEN FALSE ELSE TRUE]

\* faulty variant: the two arms of the auto-start test are swapped
activate_period_swapped_pause(self, period) ==
    [self EXCEPT !.current_period = period,
                 !.period_is_finished = FALSE,
                 !.elapsed_time = ZERO,
                 !.stopwatch_is_paused =
                     IF self.settings.next_period_starts_automatically
                     THEN TRUE ELSE FALSE]

activate_period(self, period) ==
    [self EXCEPT !.current_period = period,
                 !.period_is_finished = FALSE,
                 !.elapsed_time = ZERO,
                 !.stopwatch_is_paused =
                     IF does_next_period_start_automatically(self.settings)
                     THEN FALSE ELSE TRUE]

\* faulty variant: the notification names the period that was left
activation_notification_previous(self, period) ==
    IF are_system_notifications_enabled(self.settings)
    THEN self.current_period ELSE NoPeriod

\* the notification activate_period shows (state.rs:106-108)
activation_notification(self, period) ==
    IF are_system_notifications_enabled(self.settings) THEN period ELSE NoPeriod

\* faulty variant: a reset goes back to the work period
reset_stopwatch_to_work(self) == activate_period(self, "Work")

reset_stopwatch(self) == activate_period(self, self.current_period)

\* faulty variant: the counter has to pass the configured number
is_long_break_next_strict(self) ==
    /\ self.short_breaks_finished > self.settings.short_breaks_number
    /\ self.settings.long_breaks_are_included

\* faulty variant: the switch for long breaks is not consulted
is_long_break_next_ungated(self) ==
    self.short_breaks_finished = get_short_breaks_number(self.settings)

\* faulty variant: a long break is never due
is_long_break_next_never(self) == FALSE

is_long_break_next(self) ==
    /\ self.short_breaks_finished = get_short_breaks_number(self.settings)
    /\ are_long_breaks_included(self.settings)

\* the period cycle_to_next_period activates
next_period(self) ==
    CASE self.current_period = "Work" ->
            IF is_long_break_next(self) THEN "LongBreak"
            ELSE IF get_short_breaks_number(self.settings) > 0 THEN "ShortBreak"
            ELSE "Work"
      [] self.current_period = "ShortBreak" -> "Work"
      [] self.current_period = "LongBreak" -> "Work"

\* faulty variant: a finished short break is not counted
cycle_to_next_period_uncounted(self) ==
    CASE self.current_period = "Work" ->
            activate_period(self, next_period(self))
      [] self.current_period = "ShortBreak" ->
            activate_period(self, "Work")
      [] self.current_period = "LongBreak" ->
            activate_period([self EXCEPT !.short_breaks_finished = 0], "Work")

\* faulty variant: the counter survives a long break
cycle_to_next_period_keeps_count(self) ==
    CASE self.current_period = "Work" ->
            activate_period(self, next_period(self))
      [] self.current_period = "ShortBreak" ->
            activate_period(
                [self EXCEPT !.short_breaks_finished = self.short_breaks_finished + 1],
                "Work")
      [] self.current_period = "LongBreak" ->
            activate_period(self, "Work")

cycle_to_next_period(self) ==
    CASE self.current_period = "Work" ->
            activate_period(self, next_period(self))
      [] self.current_period = "ShortBreak" ->
            activate_period(
                [self EXCEPT !.short_breaks_finished = self.short_breaks_finished + 1],
                "Work")
      [] self.current_period = "LongBreak" ->
            activate_period([self EXCEPT !.short_breaks_finished = 0], "Work")

\* faulty variant: subtracts without the early return of ZERO
calculate_remaining_time_unclamped(self) ==
    (CASE self.current_period = "Work" -> self.settings.work_period
       [] self.current_period = "ShortBreak" -> self.settings.short_break_period
       [] self.current_period = "LongBreak" -> self.settings.long_break_period)
        - self.elapsed_time

calculate_remaining_time(self) ==
    LET period_duration ==
            convert_period_to_duration(self.settings, self.current_period)
    IN  IF period_duration <= self.elapsed_time
        THEN ZERO
        ELSE period_duration - self.elapsed_time

\* faulty variant: the window is open below five seconds only
is_period_finishing_strict(self) == calculate_remaining_time(self) < FINISHING_WINDOW_S

is_period_finishing(self) == calculate_remaining_time(self) <= FINISHING_WINDOW_S

\* whether increase_elapsed_time requests the ending sound (state.rs:112-114)
requests_beep(self) ==
    is_period_finishing(self) /\ is_period_ending_sound_enabled(self.settings)

\* faulty variant: the period only counts as finished once the clock is past it
increase_elapsed_time_strict(self, value) ==
    LET elapsed == self.elapsed_time + value
        period_duration ==
            CASE self.current_period = "Work" -> self.settings.work_period
              [] self.current_period = "ShortBreak" -> self.settings.short_break_period
              [] self.current_period = "LongBreak" -> self.settings.long_break_period
    IN  [self EXCEPT !.elapsed_time = elapsed,
                     !.period_is_finished =
                         IF period_duration < elapsed
                         THEN TRUE ELSE self.period_is_finished]

\* faulty variant: the clock is set to the increment
increase_elapsed_time_overwrites(self, value) ==
    LET elapsed == value
        period_duration ==
            convert_period_to_duration(self.settings, self.current_period)
    IN  [self EXCEPT !.elapsed_time = elapsed,
                     !.period_is_finished =
                         IF period_duration <= elapsed
                         THEN TRUE ELSE self.period_is_finished]

increase_elapsed_time(self, value) ==
    LET elapsed == self.elapsed_time + value
        period_duration ==
            convert_period_to_duration(self.settings, self.current_period)
    IN  [self EXCEPT !.elapsed_time = elapsed,
                     !.period_is_finished =
                         IF period_duration <= elapsed
                         THEN TRUE ELSE self.period_is_finished]

\* ------------------------------------------------------------------- state
\* start and pause record the flag they found: 1 paused, 0 running
paused_before(self) == IF self.stopwatch_is_paused THEN 1 ELSE 0

Op(name, period, value, old) ==
    [name |-> name, period |-> period, value |-> value, old |-> old]

\* ------------------------------------------------------------ settings.json
MINUTE_S == SECOND_S * 60
TWENTY_FIVE_MINUTES == MINUTE_S * 25
FIVE_MINUTES == MINUTE_S * 5
EIGHT_MINUTES == MINUTE_S * 8
DEFAULT_SHORT_BREAKS_BEFORE_LONG_BREAK == 3

Settings_default ==
    [work_period |-> TWENTY_FIVE_MINUTES,
     short_break_period |-> FIVE_MINUTES,
     long_break_period |-> EIGHT_MINUTES,
     short_breaks_number |-> DEFAULT_SHORT_BREAKS_BEFORE_LONG_BREAK,
     long_breaks_are_included |-> TRUE,
     next_period_starts_automatically |-> FALSE,
     system_notifications_are_enabled |-> TRUE,
     period_ending_sound_is_enabled |-> TRUE]

\* the fields #[derive(Deserialize)] requires of the JSON object
Fields ==
    {"work_period", "short_break_period", "long_break_period",
     "short_breaks_number", "long_breaks_are_included",
     "next_period_starts_automatically", "system_notifications_are_enabled",
     "period_ending_sound_is_enabled", "beep_volume"}

\* Option and Result values
None == [some |-> FALSE]
Some(value) == [some |-> TRUE, value |-> value]
Ok(value) == [ok |-> TRUE, value |-> value]
Err(error) == [ok |-> FALSE, error |-> error]
unwrap_or(option, default) == IF option.some THEN option.value ELSE default

\* The settings records a run starts from.  The two switches that only gate
\* the notification and the sound keep their default value; SettingsSpec
\* below covers every value of them.
InitialSettings ==
    {settings \in SettingsValues :
        /\ settings.system_notifications_are_enabled
        /\ settings.period_ending_sound_is_enabled}

\* What can be at the path: nothing, a file that cannot be opened, a file whose
\* read fails, or text; text is well-formed JSON or not and has all the fields
\* of a Settings or lacks one.
NoFile(kind) == [kind |-> kind]

TextFile(syntax_ok, present, settings) ==
    [kind |-> "text", syntax_ok |-> syntax_ok, present |-> present,
     settings |-> settings]

Files ==
    {NoFile(kind) : kind \in {"missing", "denied", "unreadable"}}
        \cup {TextFile(syntax_ok, present, settings) :
                syntax_ok \in BOOLEAN,
                present \in {Fields} \cup {Fields \ {field} : field \in Fields},
                settings \in InitialSettings}

\* File::open
open(f) ==
    IF f.kind \in {"missing", "denied"} THEN Err("io") ELSE Ok(f)

\* serde_json::from_reader into a Settings: every field is required
from_reader(f) ==
    IF f.kind = "unreadable" THEN Err("io")
    ELSE IF ~f.syntax_ok THEN Err("syntax")
    ELSE IF f.present # Fields THEN Err("data")
    ELSE Ok(f.settings)

\* faulty variant: a record that lacks a field is handed on all the same
load_settings_from_file_unchecked(path) ==
    LET open_result == open(path)
    IN  IF ~open_result.ok THEN None
        ELSE LET deserialize_result == from_reader(open_result.value)
             IN  IF ~deserialize_result.ok /\ deserialize_result.error # "data"
                 THEN None
                 ELSE Some(open_result.value.settings)

load_settings_from_file(path) ==
    LET open_result == open(path)
    IN  IF ~open_result.ok THEN None
        ELSE LET deserialize_result == from_reader(open_result.value)
             IN  IF ~deserialize_result.ok THEN None
                 ELSE Some(deserialize_result.value)

\* main.rs has its own copy of the loader
load_settings(path) ==
    LET opened == open(path)
    IN  IF opened.ok
        THEN LET parsed == from_reader(opened.value)
             IN  IF parsed.ok THEN Some(parsed.value) ELSE None
        ELSE None

\* How the destination behaves during a save.
Disks == {"writable", "unwritable", "write_error"}

\* save_settings_to_file: the outcomes of one call, each with what it gives
\* back and the file it leaves.  File::create fails with `?`; a write error
\* after the file was created either comes back from to_writer_pretty, where
\* unwrap panics, or is met only when the BufWriter is dropped, where it is
\* ignored and the call gives Ok with the file cut short.
save_settings_to_file(settings, path, disk) ==
    CASE disk = "unwritable" ->
            {[completion |-> "return", value |-> Err("io"), file |-> path]}
      [] disk = "writable" ->
            {[completion |-> "return", value |-> Ok("unit"),
              file |-> TextFile(TRUE, Fields, settings)]}
      [] disk = "write_error" ->
            {[completion |-> "panic", value |-> Err("serialize"),
              file |-> TextFile(FALSE, {}, settings)],
             [completion |-> "return", value |-> Ok("unit"),
              file |-> TextFile(FALSE, {}, settings)]}

NoResult == [call |-> "none"]

\* TomataState::new(settings) for any settings record, the way the tests and
\* main build the state.  The disk is followed in PersistSpec only.
Init ==
    /\ \E settings \in InitialSettings : data = new(settings)
    /\ op = Op("new", NoPeriod, 0, 0)
    /\ history = << <<"Work", 0>> >>
    /\ notified = NoPeriod
    /\ beeped = FALSE
    /\ file = NoFile("missing")
    /\ result = NoResult
    /\ alerts = 0

\* ----------------------------------------------------------------- actions
StartStopwatch ==
    /\ data' = start_stopwatch(data)
    /\ op' = Op("start_stopwatch", NoPeriod, 0, paused_before(data))
    /\ history' = <<>>
    /\ notified' = NoPeriod
    /\ beeped' = FALSE
    /\ UNCHANGED storage

PauseStopwatch ==
    /\ data' = pause_stopwatch(data)
    /\ op' = Op("pause_stopwatch", NoPeriod, 0, paused_before(data))
    /\ history' = <<>>
    /\ notified' = NoPeriod
    /\ beeped' = FALSE
    /\ UNCHANGED storage

ResetStopwatch ==
    /\ data' = reset_stopwatch(data)
    /\ op' = Op("reset_stopwatch", NoPeriod, 0, data.elapsed_time)
    /\ history' = <<>>
    /\ notified' = activation_notification(data, data.current_period)
    /\ beeped' = FALSE
    /\ UNCHANGED storage

ActivatePeriod(period) ==
    /\ data' = activate_period(data, period)
    /\ op' = Op("activate_period", period, 0, data.elapsed_time)
    /\ history' = <<>>
    /\ notified' = activation_notification(data, period)
    /\ beeped' = FALSE
    /\ UNCHANGED storage

CycleToNextPeriod ==
    /\ data.current_period = "ShortBreak" => data.short_breaks_finished < MaxFinished
    /\ data' = cycle_to_next_period(data)
    /\ op' = Op("cycle_to_next_period", NoPeriod, 0, data.elapsed_time)
    /\ history' = IF history # <<>> /\ Len(history) <= MaxCycles
                  THEN Append(history, <<data'.current_period,
                                         data'.short_breaks_finished>>)
                  ELSE <<>>
    /\ notified' = activation_notification(data, next_period(data))
    /\ beeped' = FALSE
    /\ UNCHANGED storage

IncreaseElapsedTime(value) ==
    /\ data.elapsed_time + value <= MaxElapsed
    /\ data' = increase_elapsed_time(data, value)
    /\ op' = Op("increase_elapsed_time", NoPeriod, value, data.elapsed_time)
    /\ history' = <<>>
    /\ notified' = NoPeriod
    /\ beeped' = requests_beep(data)
    /\ UNCHANGED storage

\* faulty variant: the tick is counted whether or not the stopwatch is paused
Timer_ignores_pause ==
    LET ticked == increase_elapsed_time(data, make_tick_interval)
    IN  /\ data.elapsed_time + make_tick_interval <= MaxElapsed
        /\ (is_period_finished(ticked) /\ ticked.current_period = "ShortBreak")
               => ticked.short_breaks_finished < MaxFinished
        /\ data' = IF is_period_finished(ticked)
                   THEN cycle_to_next_period(ticked)
                   ELSE ticked
        /\ op' = Op("timer", NoPeriod, make_tick_interval, data.elapsed_time)
        /\ history' = <<>>
        /\ notified' = IF is_period_finished(ticked)
                       THEN activation_notification(ticked, next_period(ticked))
                       ELSE NoPeriod
        /\ beeped' = requests_beep(data)
        /\ UNCHANGED storage

\* faulty variant: a finished period is left for the next tick to cycle
Timer_without_cycle ==
    LET ticked == IF ~is_stopwatch_paused(data)
                  THEN increase_elapsed_time(data, make_tick_interval)
                  ELSE data
    IN  /\ ~is_stopwatch_paused(data) =>
               data.elapsed_time + make_tick_interval <= MaxElapsed
        /\ data' = ticked
        /\ op' = Op("timer", NoPeriod, make_tick_interval, data.elapsed_time)
        /\ history' = <<>>
        /\ notified' = NoPeriod
        /\ beeped' = (~is_stopwatch_paused(data) /\ requests_beep(data))
        /\ UNCHANGED storage

\* Event::Timer of TomataApp::event, for the widget's own timer token
Timer ==
    LET ticked == IF ~is_stopwatch_paused(data)
                  THEN increase_elapsed_time(data, make_tick_interval)
                  ELSE data
    IN  /\ ~is_stopwatch_paused(data) =>
               data.elapsed_time + make_tick_interval <= MaxElapsed
        /\ (is_period_finished(ticked) /\ ticked.current_period = "ShortBreak")
               => ticked.short_breaks_finished < MaxFinished
        /\ data' = IF is_period_finished(ticked)
                   THEN cycle_to_next_period(ticked)
                   ELSE ticked
        /\ op' = Op("timer", NoPeriod, make_tick_interval, data.elapsed_time)
        /\ history' = <<>>
        /\ notified' = IF is_period_finished(ticked)
                       THEN activation_notification(ticked, next_period(ticked))
                       ELSE NoPeriod
        /\ beeped' = (~is_stopwatch_paused(data) /\ requests_beep(data))
        /\ UNCHANGED storage

IncreasePeriodDuration(period, value) ==
    /\ convert_period_to_duration(data.settings, period) + value <= MaxDuration
    /\ data' = [data EXCEPT !.settings =
                    increase_period_duration(data.settings, period, value)]
    /\ op' = Op("increase_period_duration", period, value,
                convert_period_to_duration(data.settings, period))
    /\ history' = <<>>
    /\ notified' = NoPeriod
    /\ beeped' = FALSE
    /\ UNCHANGED storage

DecreasePeriodDuration(period, value) ==
    /\ data' = [data EXCEPT !.settings =
                    decrease_period_duration(data.settings, period, value)]
    /\ op' = Op("decrease_period_duration", period, value,
                convert_period_to_duration(data.settings, period))
    /\ history' = <<>>
    /\ notified' = NoPeriod
    /\ beeped' = FALSE
    /\ UNCHANGED storage

IncreaseShortBreaksNumber(value) ==
    /\ get_short_breaks_number(data.settings) + value <= MaxShortBreaks
    /\ data' = [data EXCEPT !.settings =
                    increase_short_breaks_number(data.settings, value)]
    /\ op' = Op("increase_short_breaks_number", NoPeriod, value,
                get_short_breaks_number(data.settings))
    /\ history' = <<>>
    /\ notified' = NoPeriod
    /\ beeped' = FALSE
    /\ UNCHANGED storage

DecreaseShortBreaksNumber(value) ==
    /\ data' = [data EXCEPT !.settings =
                    decrease_short_breaks_number(data.settings, value)]
    /\ op' = Op("decrease_short_breaks_number", NoPeriod, value,
                get_short_breaks_number(data.settings))
    /\ history' = <<>>
    /\ notified' = NoPeriod
    /\ beeped' = FALSE
    /\ UNCHANGED storage

\* the Switch widgets of the settings window
SwitchLongBreaks ==
    /\ data' = [data EXCEPT !.settings.long_breaks_are_included =
                    ~data.settings.long_breaks_are_included]
    /\ op' = Op("switch_long_breaks_are_included", NoPeriod, 0, 0)
    /\ history' = <<>>
    /\ notified' = NoPeriod
    /\ beeped' = FALSE
    /\ UNCHANGED storage

SwitchNextPeriodStartsAutomatically ==
    /\ data' = [data EXCEPT !.settings.next_period_starts_automatically =
                    ~data.settings.next_period_starts_automatically]
    /\ op' = Op("switch_next_period_starts_automatically", NoPeriod, 0, 0)
    /\ history' = <<>>
    /\ notified' = NoPeriod
    /\ beeped' = FALSE
    /\ UNCHANGED storage

SwitchSystemNotifications ==
    /\ data' = [data EXCEPT !.settings.system_notifications_are_enabled =
                    ~data.settings.system_notifications_are_enabled]
    /\ op' = Op("switch_system_notifications_are_enabled", NoPeriod, 0, 0)
    /\ history' = <<>>
    /\ notified' = NoPeriod
    /\ beeped' = FALSE
    /\ UNCHANGED storage

SwitchPeriodEndingSound ==
    /\ data' = [data EXCEPT !.settings.period_ending_sound_is_enabled =
                    ~data.settings.period_ending_sound_is_enabled]
    /\ op' = Op("switch_period_ending_sound_is_enabled", NoPeriod, 0, 0)
    /\ history' = <<>>
    /\ notified' = NoPeriod
    /\ beeped' = FALSE
    /\ UNCHANGED storage

Next ==
    \/ StartStopwatch
    \/ PauseStopwatch
    \/ ResetStopwatch
    \/ \E period \in Period : ActivatePeriod(period)
    \/ CycleToNextPeriod
    \/ \E value \in Values : IncreaseElapsedTime(value)
    \/ Timer
    \/ \E period \in Period, value \in Values : IncreasePeriodDuration(period, value)
    \/ \E period \in Period, value \in Values : DecreasePeriodDuration(period, value)
    \/ \E value \in Values : IncreaseShortBreaksNumber(value)
    \/ \E value \in Values : DecreaseShortBreaksNumber(value)
    \/ SwitchLongBreaks
    \/ SwitchNextPeriodStartsAutomatically

Spec == Init /\ [][Next]_vars

\* ------------------------------------------------------ the settings file
\* main: the state is built from what load_settings finds at the path, or from
\* the default settings.
PersistInit ==
    /\ file \in Files
    /\ result = [call |-> "load_settings", returned |-> load_settings(file)]
    /\ data = new(unwrap_or(load_settings(file), Settings_default))
    /\ op = Op("new", NoPeriod, 0, 0)
    /\ history = << <<"Work", 0>> >>
    /\ notified = NoPeriod
    /\ beeped = FALSE
    /\ alerts = 0

\* a call of load_settings_from_file on the path
LoadSettingsFromFile ==
    /\ result' = [call |-> "load_settings_from_file",
                  returned |-> load_settings_from_file(file)]
    /\ op' = Op("load_settings_from_file", NoPeriod, 0, 0)
    /\ history' = <<>>
    /\ notified' = NoPeriod
    /\ beeped' = FALSE
    /\ UNCHANGED <<data, file, alerts>>

\* the Save button: save_settings_to_file(data, "settings.json").unwrap()
Save ==
    \E disk \in Disks :
        \E outcome \in save_settings_to_file(data.settings, file, disk) :
            /\ file' = outcome.file
            /\ result' = [call |-> "save_settings_to_file",
                          disk |-> disk,
                          completion |-> outcome.completion,
                          value |-> outcome.value,
                          crashed |-> (outcome.completion = "panic"
                                          \/ ~outcome.value.ok)]
            /\ op' = Op("save", NoPeriod, 0, 0)
            /\ history' = <<>>
            /\ notified' = NoPeriod
            /\ beeped' = FALSE
            /\ UNCHANGED <<data, alerts>>

\* a panic ends the program
Crashed == result.call = "save_settings_to_file" /\ result.crashed

PersistNext ==
    \/ ~Crashed /\ LoadSettingsFromFile
    \/ ~Crashed /\ Save
    \/ ~Crashed /\ SwitchLongBreaks
    \/ ~Crashed /\ SwitchNextPeriodStartsAutomatically

PersistSpec == PersistInit /\ [][PersistNext]_vars

\* --------------------------------------------------------- the running app
\* The events the windows deliver: the buttons, the switches and the timer.
\* increase_elapsed_time and cycle_to_next_period run inside the timer event
\* only.
AppNext ==
    \/ StartStopwatch
    \/ PauseStopwatch
    \/ ResetStopwatch
    \/ \E period \in Period : ActivatePeriod(period)
    \/ Timer
    \/ \E period \in Period, value \in Values : IncreasePeriodDuration(period, value)
    \/ \E period \in Period, value \in Values : DecreasePeriodDuration(period, value)
    \/ \E value \in Values : IncreaseShortBreaksNumber(value)
    \/ \E value \in Values : DecreaseShortBreaksNumber(value)
    \/ SwitchLongBreaks
    \/ SwitchNextPeriodStartsAutomatically

AppSpec == Init /\ [][AppNext]_vars

\* ------------------------------------- the notification and the ending sound
\* Periods long enough to have a part outside the last five seconds, and the
\* clock one past the longest of them.
EffectDurations ==
    {0} \cup (FINISHING_WINDOW_S .. FINISHING_WINDOW_S + MaxDuration + 1)

MaxEffectElapsed == FINISHING_WINDOW_S + MaxDuration + 2

\* the beep threads followed at one time
MaxAlerts == MaxValue + 1

EffectSettings ==
    {[work_period |-> work_period,
      short_break_period |-> SECOND_S,
      long_break_period |-> SECOND_S,
      short_breaks_number |-> short_breaks_number,
      long_breaks_are_included |-> TRUE,
      next_period_starts_automatically |-> starts,
      system_notifications_are_enabled |-> notifications,
      period_ending_sound_is_enabled |-> sound] :
        work_period \in EffectDurations,
        short_breaks_number \in 0..1,
        starts \in BOOLEAN, notifications \in BOOLEAN, sound \in BOOLEAN}

EffectInit ==
    /\ \E settings \in EffectSettings : data = new(settings)
    /\ op = Op("new", NoPeriod, 0, 0)
    /\ history = <<>>
    /\ notified = NoPeriod
    /\ beeped = FALSE
    /\ file = NoFile("missing")
    /\ result = NoResult
    /\ alerts = 0

\* Notification::show: the notification service takes the request or fails
ShowOutcomes == {Ok("shown"), Err("notification")}

\* show().unwrap() panicked on the thread that runs the state machine
Aborted == result.call = "show" /\ result.crashed

\* One call on the state with what it asks of the collaborators: `shown` is
\* the period a notification is requested for (state.rs:106-108), `beep` says
\* whether self.beep() spawns a thread (state.rs:47-52, 112-114).
Effects(name, period, value, next, shown, beep) ==
    /\ ~Aborted
    /\ beep => alerts < MaxAlerts
    /\ data' = next
    /\ op' = Op(name, period, value, data.elapsed_time)
    /\ history' = <<>>
    /\ notified' = shown
    /\ beeped' = beep
    /\ alerts' = IF beep THEN alerts + 1 ELSE alerts
    /\ \E outcome \in ShowOutcomes :
           result' = IF shown = NoPeriod
                     THEN NoResult
                     ELSE [call |-> "show", value |-> outcome,
                           crashed |-> ~outcome.ok]
    /\ UNCHANGED file

Start ==
    Effects("start_stopwatch", NoPeriod, 0, start_stopwatch(data), NoPeriod, FALSE)

Pause ==
    Effects("pause_stopwatch", NoPeriod, 0, pause_stopwatch(data), NoPeriod, FALSE)

Reset ==
    Effects("reset_stopwatch", NoPeriod, 0, reset_stopwatch(data),
            activation_notification(data, data.current_period), FALSE)

Activate(period) ==
    Effects("activate_period", period, 0, activate_period(data, period),
            activation_notification(data, period), FALSE)

Cycle ==
    /\ data.current_period = "ShortBreak" => data.short_breaks_finished < MaxFinished
    /\ Effects("cycle_to_next_period", NoPeriod, 0, cycle_to_next_period(data),
               activation_notification(data, next_period(data)), FALSE)

Increase(value) ==
    /\ data.elapsed_time + value <= MaxEffectElapsed
    /\ Effects("increase_elapsed_time", NoPeriod, value,
               increase_elapsed_time(data, value), NoPeriod, requests_beep(data))

\* Event::Timer, with the beep and the notification it asks for
Tick ==
    LET ticked == IF ~is_stopwatch_paused(data)
                  THEN increase_elapsed_time(data, make_tick_interval)
                  ELSE data
    IN  /\ ~is_stopwatch_paused(data) =>
               data.elapsed_time + make_tick_interval <= MaxEffectElapsed
        /\ (is_period_finished(ticked) /\ ticked.current_period = "ShortBreak")
               => ticked.short_breaks_finished < MaxFinished
        /\ Effects("timer", NoPeriod, make_tick_interval,
                   IF is_period_finished(ticked)
                   THEN cycle_to_next_period(ticked) ELSE ticked,
                   IF is_period_finished(ticked)
                   THEN activation_notification(ticked, next_period(ticked))
                   ELSE NoPeriod,
                   ~is_stopwatch_paused(data) /\ requests_beep(data))

\* faulty variant: a playback that fails stops the stopwatch
AlertEnds_stops_stopwatch(outcome) ==
    /\ ~Aborted
    /\ alerts > 0
    /\ alerts' = alerts - 1
    /\ op' = Op(IF outcome.ok THEN "alert_played" ELSE "alert_failed",
                NoPeriod, 0, data.elapsed_time)
    /\ notified' = NoPeriod
    /\ beeped' = FALSE
    /\ data' = IF outcome.ok THEN data ELSE pause_stopwatch(data)
    /\ UNCHANGED <<history, file, result>>

\* A beep thread comes to its end: the sound was played, or one of the two
\* unwraps in the closure panicked, which ends that thread only.  The closure
\* owns the volume and nothing else.
AlertEnds(outcome) ==
    /\ ~Aborted
    /\ alerts > 0
    /\ alerts' = alerts - 1
    /\ op' = Op(IF outcome.ok THEN "alert_played" ELSE "alert_failed",
                NoPeriod, 0, data.elapsed_time)
    /\ notified' = NoPeriod
    /\ beeped' = FALSE
    /\ UNCHANGED <<data, history, file, result>>

EffectNext ==
    \/ Start
    \/ Pause
    \/ Reset
    \/ \E period \in Period : Activate(period)
    \/ Cycle
    \/ \E value \in Values : Increase(value)
    \/ Tick
    \/ \E outcome \in {Ok("played"), Err("playback")} : AlertEnds(outcome)
    \/ ~Aborted /\ SwitchSystemNotifications
    \/ ~Aborted /\ SwitchPeriodEndingSound

EffectSpec == EffectInit /\ [][EffectNext]_vars

\* ------------------------------------------------ the timer left to itself
\* Periods start automatically, long breaks are included, the stopwatch has
\* been started and from then on only the timer fires.  The handler asks for
\* the next timer event each time it runs (widget.rs:59), so a tick that can
\* be delivered is delivered.
AutoInit ==
    /\ \E settings \in InitialSettings :
           /\ does_next_period_start_automatically(settings)
           /\ are_long_breaks_included(settings)
           /\ data = start_stopwatch(new(settings))
    /\ op = Op("start_stopwatch", NoPeriod, 0, 1)
    /\ history = <<>>
    /\ notified = NoPeriod
    /\ beeped = FALSE
    /\ file = NoFile("missing")
    /\ result = NoResult
    /\ alerts = 0

AutoNext == Timer

AutoSpec == AutoInit /\ [][AutoNext]_vars /\ WF_vars(Timer)

\* ------------------------------------------------- the settings on their own
\* Any settings record (Settings::new, or one read from settings.json), and
\* only the operations of the settings window.
SettingsInit ==
    /\ \E settings \in SettingsValues : data = new(settings)
    /\ op = Op("new", NoPeriod, 0, 0)
    /\ history = << <<"Work", 0>> >>
    /\ notified = NoPeriod
    /\ beeped = FALSE
    /\ file = NoFile("missing")
    /\ result = NoResult
    /\ alerts = 0

SettingsNext ==
    \/ \E period \in Period, value \in Values : IncreasePeriodDuration(period, value)
    \/ \E period \in Period, value \in Values : DecreasePeriodDuration(period, value)
    \/ \E value \in Values : IncreaseShortBreaksNumber(value)
    \/ \E value \in Values : DecreaseShortBreaksNumber(value)
    \/ SwitchLongBreaks
    \/ SwitchNextPeriodStartsAutomatically
    \/ SwitchSystemNotifications
    \/ SwitchPeriodEndingSound

SettingsSpec == SettingsInit /\ [][SettingsNext]_vars

\* ------------------------------------------------------------------ typing
TypeOK ==
    /\ data.settings \in SettingsValues
    /\ data.elapsed_time \in 0..MaxElapsed
    /\ data.current_period \in Period
    /\ data.stopwatch_is_paused \in BOOLEAN
    /\ data.period_is_finished \in BOOLEAN
    /\ data.short_breaks_finished \in 0..MaxFinished
    /\ op.name \in STRING
    /\ op.period \in Period \cup {NoPeriod}
    /\ history \in Seq(Period \X (0..MaxFinished))
    /\ notified \in Period \cup {NoPeriod}
    /\ beeped \in BOOLEAN

Max(a, b) == IF a >= b THEN a ELSE b

duration_for_current_period ==
    convert_period_to_duration(data.settings, data.current_period)

\* ------------------------------------------------------------------ claims

\* C1: whatever the state before, activate_period(P) leaves current_period = P,
\* elapsed_time = 0 and period_finished = false.
C1_ActivatePeriodResets ==
    op.name = "activate_period" =>
        /\ data.current_period = op.period
        /\ data.elapsed_time = 0
        /\ data.period_is_finished = FALSE

\* a long break activated by hand while another period had time on the clock
C1_Witness ==
    /\ op.name = "activate_period"
    /\ op.period = "LongBreak"
    /\ op.old > 0
    /\ data.current_period = "LongBreak"
    /\ data.elapsed_time = 0

\* C2: after activate_period, reset_stopwatch and cycle_to_next_period the
\* stopwatch is paused exactly when next_period_starts_automatically is off.
C2_PausedIsNotAutoStart ==
    op.name \in {"activate_period", "reset_stopwatch", "cycle_to_next_period"} =>
        data.stopwatch_is_paused = ~data.settings.next_period_starts_automatically

\* a cycle that left the stopwatch running because auto-start is on
C2_Witness ==
    /\ op.name = "cycle_to_next_period"
    /\ data.settings.next_period_starts_automatically
    /\ ~data.stopwatch_is_paused

\* The state the cycle law puts after k calls of cycle_to_next_period on a fresh
\* state with n >= 1 short breaks and long breaks included: a round is n times
\* Work, ShortBreak, then Work, LongBreak; the counter is the number of short
\* breaks finished in the round.
CycleLaw(n, k) ==
    LET r == k % (2 * n + 2)
    IN  IF r % 2 = 0 THEN <<"Work", r \div 2>>
        ELSE IF r = 2 * n + 1 THEN <<"LongBreak", n>>
        ELSE <<"ShortBreak", (r - 1) \div 2>>

\* C3: from a fresh state with long breaks included and short_breaks_number
\* n >= 1, repeated cycle_to_next_period calls give n times Work, ShortBreak,
\* then Work, LongBreak, Work; the counter is one more after each short break
\* and 0 after the long break.
C3_CycleLaw ==
    (/\ history # <<>>
     /\ data.settings.long_breaks_are_included
     /\ data.settings.short_breaks_number >= 1) =>
        \A i \in 1..Len(history) :
            history[i] = CycleLaw(data.settings.short_breaks_number, i - 1)

\* n = 2: Work, ShortBreak, Work, ShortBreak, Work, LongBreak, Work
C3_Witness ==
    /\ data.settings.short_breaks_number = 2
    /\ data.settings.long_breaks_are_included
    /\ history = << <<"Work", 0>>, <<"ShortBreak", 0>>, <<"Work", 1>>,
                    <<"ShortBreak", 1>>, <<"Work", 2>>, <<"LongBreak", 2>>,
                    <<"Work", 0>> >>

\* C4: with short_breaks_number = 0 and long breaks included, cycling from Work
\* with no short break counted goes to LongBreak, and cycling never enters
\* ShortBreak.
C4_DegenerateCycle ==
    [][(/\ op'.name = "cycle_to_next_period"
        /\ data.settings.short_breaks_number = 0
        /\ data.settings.long_breaks_are_included) =>
           /\ data'.current_period # "ShortBreak"
           /\ (data.current_period = "Work" /\ data.short_breaks_finished = 0)
                  => data'.current_period = "LongBreak"]_vars

C4_Witness ==
    /\ op.name = "cycle_to_next_period"
    /\ data.settings.short_breaks_number = 0
    /\ data.settings.long_breaks_are_included
    /\ data.current_period = "LongBreak"
    /\ data.short_breaks_finished = 0

\* C5: the remaining time is never negative, is zero whenever elapsed_time has
\* reached the duration of the current period, and is the difference otherwise.
C5_RemainingTime ==
    /\ calculate_remaining_time(data) >= 0
    /\ data.elapsed_time >= duration_for_current_period
           => calculate_remaining_time(data) = 0
    /\ data.elapsed_time < duration_for_current_period
           => calculate_remaining_time(data) =
                  duration_for_current_period - data.elapsed_time

\* elapsed time strictly past the duration of the current period
C5_Witness ==
    /\ data.elapsed_time > duration_for_current_period
    /\ duration_for_current_period > 0
    /\ calculate_remaining_time(data) = 0

\* C6: right after increase_elapsed_time(delta), elapsed_time is the old value
\* plus delta and period_finished is true if and only if elapsed_time has
\* reached the duration of the current period.
C6_FinishedIffDueAfterIncrease ==
    op.name = "increase_elapsed_time" =>
        /\ data.elapsed_time = op.old + op.value
        /\ data.period_is_finished <=>
               (data.elapsed_time >= duration_for_current_period)

\* C7: in every reachable state, elapsed_time having reached the duration of
\* the current period implies period_finished.
C7_NoStaleCombination ==
    data.elapsed_time >= duration_for_current_period => data.period_is_finished

\* C7 as amended: in the state increase_elapsed_time returns, elapsed_time
\* having reached the duration of the current period implies period_finished.
C7_NoStaleAfterIncrease ==
    op.name = "increase_elapsed_time" =>
        (data.elapsed_time >= duration_for_current_period
             => data.period_is_finished)

\* a tick of one second that brought the period exactly to its end
C7_Witness ==
    /\ op.name = "increase_elapsed_time"
    /\ op.value > 0
    /\ op.old < duration_for_current_period
    /\ data.elapsed_time = duration_for_current_period
    /\ data.period_is_finished

\* C8: decrease_period_duration(period, x) on a duration d leaves max(0, d - x):
\* d - x when x <= d, zero when x > d, never a negative value.
C8_DecreaseDurationClamps ==
    [][op'.name = "decrease_period_duration" =>
          LET d == convert_period_to_duration(data.settings, op'.period)
              after == convert_period_to_duration(data'.settings, op'.period)
          IN  /\ after = Max(0, d - op'.value)
              /\ after >= 0
              /\ op'.value <= d => after = d - op'.value
              /\ op'.value > d => after = 0]_vars

\* a decrement larger than the duration it was applied to
C8_Witness ==
    /\ op.name = "decrease_period_duration"
    /\ op.value > op.old
    /\ convert_period_to_duration(data.settings, op.period) = 0

\* C9: decrease_short_breaks_number(x) on a count n leaves max(0, n - x);
\* decrements at zero keep it at zero.
C9_DecreaseShortBreaksClamps ==
    [][op'.name = "decrease_short_breaks_number" =>
          /\ data'.settings.short_breaks_number =
                 Max(0, data.settings.short_breaks_number - op'.value)
          /\ data.settings.short_breaks_number = 0
                 => data'.settings.short_breaks_number = 0]_vars

\* a decrement applied to a count that was already zero
C9_Witness ==
    /\ op.name = "decrease_short_breaks_number"
    /\ op.old = 0
    /\ op.value > 0
    /\ data.settings.short_breaks_number = 0

\* the switches of a settings record
Toggles(settings) ==
    <<settings.long_breaks_are_included,
      settings.next_period_starts_automatically,
      settings.system_notifications_are_enabled,
      settings.period_ending_sound_is_enabled>>

\* the fields of the timer state outside the settings
TimerFields(self) ==
    <<self.elapsed_time, self.current_period, self.stopwatch_is_paused,
      self.period_is_finished, self.short_breaks_finished>>

\* C10: increase_period_duration(period, delta) adds delta to the duration of
\* that period and changes no other duration, not the short-break count and no
\* switch; increase_short_breaks_number(n) adds n to the count and changes
\* nothing else.
C10_IncreaseFrame ==
    [][/\ op'.name = "increase_period_duration" =>
            /\ \A q \in Period :
                   convert_period_to_duration(data'.settings, q) =
                       convert_period_to_duration(data.settings, q)
                           + (IF q = op'.period THEN op'.value ELSE 0)
            /\ data'.settings.short_breaks_number = data.settings.short_breaks_number
            /\ Toggles(data'.settings) = Toggles(data.settings)
            /\ TimerFields(data') = TimerFields(data)
       /\ op'.name = "increase_short_breaks_number" =>
            /\ data'.settings.short_breaks_number =
                   data.settings.short_breaks_number + op'.value
            /\ \A q \in Period :
                   convert_period_to_duration(data'.settings, q) =
                       convert_period_to_duration(data.settings, q)
            /\ Toggles(data'.settings) = Toggles(data.settings)
            /\ TimerFields(data') = TimerFields(data)]_vars

\* a short break made longer while the other two durations differ from it
C10_Witness ==
    /\ op.name = "increase_period_duration"
    /\ op.period = "ShortBreak"
    /\ op.value > 0
    /\ data.settings.short_break_period = op.old + op.value
    /\ data.settings.long_break_period = 0

\* C11: pause and start are idempotent and write the paused flag only: a call
\* leaves the state as it was except for stopwatch_is_paused, which pause sets
\* and start clears, and a second call of the same operation right after the
\* first changes nothing at all.
C11_PauseStartIdempotent ==
    [][/\ op'.name = "pause_stopwatch" =>
            /\ data' = [data EXCEPT !.stopwatch_is_paused = TRUE]
            /\ pause_stopwatch(data') = data'
            /\ op.name = "pause_stopwatch" => data' = data
       /\ op'.name = "start_stopwatch" =>
            /\ data' = [data EXCEPT !.stopwatch_is_paused = FALSE]
            /\ start_stopwatch(data') = data'
            /\ op.name = "start_stopwatch" => data' = data]_vars

\* pause called on a stopwatch that was already paused, in the middle of a
\* short break
C11_Witness ==
    /\ op.name = "pause_stopwatch"
    /\ op.old = 1
    /\ data.stopwatch_is_paused
    /\ data.current_period = "ShortBreak"
    /\ data.short_breaks_finished > 0

\* C12 as stated: start in a state whose period_is_finished flag is set leaves
\* the whole state unchanged, the paused flag included.
C12_StartIgnoredWhenFinished ==
    [][(op'.name = "start_stopwatch" /\ data.period_is_finished)
           => data' = data]_vars

\* C12 amended: start clears the paused flag whether or not the period is
\* finished; the flag period_is_finished stays set and the stopwatch runs.
C12_StartRunsWhenFinished ==
    (op.name = "start_stopwatch" /\ data.period_is_finished)
        => ~data.stopwatch_is_paused

\* start called on a paused stopwatch whose period is finished
C12_Witness ==
    /\ op.name = "start_stopwatch"
    /\ op.old = 1
    /\ data.period_is_finished
    /\ ~data.stopwatch_is_paused

\* C13: reset gives the state activate_period(current_period) gives: elapsed
\* time zero, not finished, paused unless periods start automatically, and the
\* current period, the counter and the settings as they were.
C13_ResetIsActivateCurrent ==
    [][op'.name = "reset_stopwatch" =>
            /\ data' = activate_period(data, data.current_period)
            /\ data'.elapsed_time = 0
            /\ ~data'.period_is_finished
            /\ data'.stopwatch_is_paused =
                   ~data.settings.next_period_starts_automatically
            /\ data'.current_period = data.current_period
            /\ data'.short_breaks_finished = data.short_breaks_finished
            /\ data'.settings = data.settings]_vars

\* a reset of a short break that had run and finished, with a counted break
C13_Witness ==
    /\ op.name = "reset_stopwatch"
    /\ op.old > 0
    /\ data.current_period = "ShortBreak"
    /\ data.short_breaks_finished > 0
    /\ data.elapsed_time = 0

\* C14 as stated: the counter is zero after every activation of a long break,
\* by cycling or by activate_period(LongBreak), and after a long break
\* completes; a completed short break adds one; nothing else changes it.
C14_CounterResetOnLongBreak ==
    [][/\ (op'.name \in {"activate_period", "cycle_to_next_period"}
              /\ data'.current_period = "LongBreak")
            => data'.short_breaks_finished = 0
       /\ (op'.name = "cycle_to_next_period" /\ data.current_period = "LongBreak")
            => data'.short_breaks_finished = 0
       /\ (op'.name = "cycle_to_next_period" /\ data.current_period = "ShortBreak")
            => data'.short_breaks_finished = data.short_breaks_finished + 1]_vars

\* C14 amended: the counter is reset when cycle_to_next_period leaves a long
\* break, and only then; entering a long break keeps it.  It grows by one when
\* cycle_to_next_period leaves a short break, a tick changes it by one of
\* these two rules or not at all, and no other operation changes it.
C14_CounterResetAfterLongBreak ==
    [][/\ op'.name = "cycle_to_next_period" =>
            data'.short_breaks_finished =
                CASE data.current_period = "LongBreak" -> 0
                  [] data.current_period = "ShortBreak" ->
                        data.short_breaks_finished + 1
                  [] data.current_period = "Work" -> data.short_breaks_finished
       /\ op'.name = "timer" =>
            \/ data'.short_breaks_finished = data.short_breaks_finished
            \/ /\ data.current_period = "LongBreak"
               /\ data'.short_breaks_finished = 0
            \/ /\ data.current_period = "ShortBreak"
               /\ data'.short_breaks_finished = data.short_breaks_finished + 1
       /\ op'.name \notin {"cycle_to_next_period", "timer"} =>
            data'.short_breaks_finished = data.short_breaks_finished]_vars

\* a long break entered by cycling with the counter still at the configured
\* number, above zero
C14_Witness ==
    /\ op.name = "cycle_to_next_period"
    /\ data.current_period = "LongBreak"
    /\ data.short_breaks_finished > 0
    /\ data.short_breaks_finished = data.settings.short_breaks_number

\* C15: loading is total.  A missing file, a file that cannot be opened or
\* read, and content that is not a complete Settings record each give None;
\* Some(settings) is given exactly for a fully parsed record, and then it is
\* the record of the file.  Both loaders agree.
C15_LoadIsTotal ==
    LET failing == \/ file.kind \in {"missing", "denied", "unreadable"}
                   \/ ~file.syntax_ok
                   \/ file.present # Fields
    IN  result.call \in {"load_settings", "load_settings_from_file"} =>
            /\ result.returned = IF failing THEN None ELSE Some(file.settings)
            /\ load_settings(file) = load_settings_from_file(file)

\* well-formed text that lacks one field of the record, loaded as None
C15_Witness ==
    /\ result.call = "load_settings_from_file"
    /\ file.kind = "text"
    /\ file.syntax_ok
    /\ file.present # Fields
    /\ result.returned = None

\* C16 as stated: a save that fails, on an unwritable destination or on a
\* write error, returns an I/O error value to its caller without a panic, and
\* the Save button of the settings window goes on running.
C16_SaveFailureIsReturned ==
    (result.call = "save_settings_to_file" /\ result.disk # "writable") =>
        /\ result.completion = "return"
        /\ result.value = Err("io")
        /\ ~result.crashed

\* C17: a state built from any settings starts in Work, paused, not finished,
\* with no elapsed time and no counted short break; the default settings are
\* 25, 5 and 8 minutes and 3 short breaks.
C17_InitialState ==
    op.name = "new" =>
        /\ data.current_period = "Work"
        /\ data.stopwatch_is_paused
        /\ ~data.period_is_finished
        /\ data.elapsed_time = 0
        /\ data.short_breaks_finished = 0
        /\ data.settings = unwrap_or(result.returned, Settings_default)
        /\ Settings_default.work_period = 25 * 60
        /\ Settings_default.short_break_period = 5 * 60
        /\ Settings_default.long_break_period = 8 * 60
        /\ Settings_default.short_breaks_number = 3

\* the state built at start-up when no settings file is there
C17_Witness ==
    /\ op.name = "new"
    /\ file.kind = "missing"
    /\ data.settings.work_period = 1500
    /\ data.settings.short_breaks_number = 3
    /\ data.current_period = "Work"

\* C18: cycling always has a next period.  From Work it is LongBreak iff the
\* counter equals the configured number and long breaks are included,
\* otherwise ShortBreak iff the configured number is above zero, otherwise
\* Work again; from either break it is Work.  With long breaks switched off
\* neither cycle_to_next_period nor a tick enters LongBreak.
C18_NextPeriodRule ==
    [][/\ op'.name = "cycle_to_next_period" =>
            /\ data'.current_period \in Period
            /\ data.current_period = "Work" =>
                 /\ data'.current_period = "LongBreak" <=>
                        /\ data.short_breaks_finished =
                               data.settings.short_breaks_number
                        /\ data.settings.long_breaks_are_included
                 /\ data'.current_period = "ShortBreak" <=>
                        /\ ~(/\ data.short_breaks_finished =
                                    data.settings.short_breaks_number
                             /\ data.settings.long_breaks_are_included)
                        /\ data.settings.short_breaks_number > 0
            /\ data.current_period # "Work" => data'.current_period = "Work"
       /\ (op'.name \in {"cycle_to_next_period", "timer"}
              /\ ~data.settings.long_breaks_are_included
              /\ data.current_period # "LongBreak")
            => data'.current_period # "LongBreak"]_vars

\* a short break entered by cycling, with long breaks switched off, when the
\* counter equals the configured number
C18_Witness ==
    /\ op.name = "cycle_to_next_period"
    /\ ~data.settings.long_breaks_are_included
    /\ data.current_period = "ShortBreak"
    /\ data.short_breaks_finished = data.settings.short_breaks_number
    /\ data.short_breaks_finished > 0

\* C19: a tick delivered while the stopwatch is paused and the period is not
\* finished changes nothing: elapsed time, period, counter and flags stay.
C19_PausedTickIsIdle ==
    [][(op'.name = "timer" /\ data.stopwatch_is_paused /\ ~data.period_is_finished)
           => data' = data]_vars

\* a tick that met a paused stopwatch with time left on the period
C19_Witness ==
    /\ op.name = "timer"
    /\ data.stopwatch_is_paused
    /\ ~data.period_is_finished
    /\ notified = NoPeriod
    /\ op.old = data.elapsed_time
    /\ calculate_remaining_time(data) > 0

\* C20: the tick that completes a period cycles in the same event.  In the
\* running app no state between two events has period_is_finished set, and a
\* tick that counted a second leaves a period with time still to run.
C20_FinishedNeverObserved ==
    /\ ~data.period_is_finished
    /\ (op.name = "timer" /\ data.elapsed_time = op.old + make_tick_interval)
           => data.elapsed_time < duration_for_current_period

\* a tick that completed the work period and entered the short break
C20_Witness ==
    /\ op.name = "timer"
    /\ notified = "ShortBreak"
    /\ data.current_period = "ShortBreak"
    /\ data.elapsed_time = 0
    /\ op.old + make_tick_interval = data.settings.work_period

\* C21: elapsed_time goes back to zero exactly on an activation.  A step that
\* lowers elapsed_time or changes current_period is an activate_period, a
\* reset, a cycle_to_next_period or a tick that cycles, and it leaves
\* elapsed_time at zero; every activation leaves it at zero; between
\* activations it never goes down, increase_elapsed_time adding its argument.
C21_ElapsedResetOnActivation ==
    [][/\ (data'.elapsed_time < data.elapsed_time
              \/ data'.current_period # data.current_period)
            => /\ op'.name \in {"activate_period", "reset_stopwatch",
                                "cycle_to_next_period", "timer"}
               /\ data'.elapsed_time = 0
       /\ op'.name \in {"activate_period", "reset_stopwatch", "cycle_to_next_period"}
            => data'.elapsed_time = 0
       /\ op'.name = "increase_elapsed_time"
            => /\ data'.elapsed_time = data.elapsed_time + op'.value
               /\ data'.current_period = data.current_period
       /\ op'.name = "timer"
            => \/ data'.elapsed_time = 0
               \/ /\ data'.elapsed_time \in
                         {data.elapsed_time, data.elapsed_time + make_tick_interval}
                  /\ data'.current_period = data.current_period]_vars

\* increase_elapsed_time called on a clock that was already running, in a
\* break, and adding to it
C21_Witness ==
    /\ op.name = "increase_elapsed_time"
    /\ op.old > 0
    /\ op.value > 0
    /\ data.elapsed_time = op.old + op.value
    /\ data.current_period = "LongBreak"

\* C22: increase_elapsed_time requests the ending sound exactly when, before
\* the increment, at most five seconds of the current period remain and the
\* ending-sound switch is on; no other operation requests it, and a tick on a
\* paused stopwatch does not call increase_elapsed_time.  A period of at most
\* five seconds requests it from its first tick.
C22_BeepInLastFiveSeconds ==
    [][LET duration ==
               CASE data.current_period = "Work" -> data.settings.work_period
                 [] data.current_period = "ShortBreak" ->
                       data.settings.short_break_period
                 [] data.current_period = "LongBreak" ->
                       data.settings.long_break_period
           remaining == IF duration <= data.elapsed_time
                        THEN 0 ELSE duration - data.elapsed_time
           called == \/ op'.name = "increase_elapsed_time"
                     \/ op'.name = "timer" /\ ~data.stopwatch_is_paused
       IN  /\ called =>
                beeped' = (remaining <= 5
                              /\ data.settings.period_ending_sound_is_enabled)
           /\ ~called => ~beeped'
           /\ (called /\ duration <= 5 /\ data.elapsed_time = 0
                  /\ data.settings.period_ending_sound_is_enabled) => beeped'
           /\ (called /\ remaining > 5) => ~beeped']_vars

\* the tick that finds exactly five seconds left on a running work period
C22_Witness ==
    /\ op.name = "timer"
    /\ beeped
    /\ op.old > 0
    /\ data.current_period = "Work"
    /\ data.elapsed_time = op.old + make_tick_interval
    /\ data.settings.work_period - op.old = 5

\* C23: the ending sound is played on a thread of its own.  The call that
\* requested it returns with the clock advanced and the finished flag set
\* where due while the thread is still running, and the end of a thread,
\* played or failed, early or ticks later, leaves the timer state as it is.
C23_AlertIsFireAndForget ==
    [][LET duration ==
               convert_period_to_duration(data.settings, data.current_period)
       IN  /\ op'.name \in {"alert_played", "alert_failed"} =>
                /\ data' = data
                /\ alerts' = alerts - 1
           /\ beeped' => alerts' = alerts + 1
           /\ op'.name = "increase_elapsed_time" =>
                /\ data'.elapsed_time = data.elapsed_time + op'.value
                /\ data'.period_is_finished =
                       (data.period_is_finished \/ duration <= data'.elapsed_time)
                /\ data' = increase_elapsed_time(data, op'.value)
           /\ (op'.name = "timer" /\ beeped') =>
                /\ ~data'.period_is_finished
                /\ \/ data'.elapsed_time = 0
                   \/ /\ data'.elapsed_time = data.elapsed_time + make_tick_interval
                      /\ data'.elapsed_time < duration]_vars

\* a playback that failed on a running stopwatch while another beep thread is
\* still playing
C23_Witness ==
    /\ op.name = "alert_failed"
    /\ alerts > 0
    /\ ~data.stopwatch_is_paused
    /\ data.elapsed_time > 0

\* C24 as stated: every activate_period call, from a period button, from reset
\* or from cycle_to_next_period, sends the notification sink the period that
\* became current.
C24_NotificationOnEveryActivation ==
    op.name \in {"activate_period", "reset_stopwatch", "cycle_to_next_period"}
        => notified = data.current_period

\* C24 amended: an activation requests one notification, for the period that
\* became current, when system notifications are enabled, and none when they
\* are disabled; a tick requests one only when it cycles; no other operation
\* requests one.
C24_NotificationWhenEnabled ==
    /\ op.name \in {"activate_period", "reset_stopwatch", "cycle_to_next_period"}
        => notified = IF data.settings.system_notifications_are_enabled
                      THEN data.current_period ELSE NoPeriod
    /\ op.name = "timer"
        => /\ notified \in {NoPeriod, data.current_period}
           /\ notified # NoPeriod =>
                  /\ data.settings.system_notifications_are_enabled
                  /\ data.elapsed_time = 0
    /\ op.name \notin {"activate_period", "reset_stopwatch",
                       "cycle_to_next_period", "timer"}
        => notified = NoPeriod

\* the long-break button pressed during a work period, with notifications on
C24_Witness ==
    /\ op.name = "activate_period"
    /\ op.period = "LongBreak"
    /\ op.old > 0
    /\ notified = "LongBreak"
    /\ data.current_period = "LongBreak"

\* C25 as stated: no operation of the state machine aborts, whatever the
\* notification service and the audio thread do.
C25_NoAbort == ~Aborted

\* C26 as stated: when start-up finds no loadable settings file the defaults
\* are written to the file at once, so that a load that follows, with no save
\* by the user in between, gives the defaults.
C26_DefaultsWrittenBack ==
    (result.call = "load_settings" /\ result.returned = None)
        => load_settings_from_file(file) = Some(Settings_default)

C28_CounterWithinNumber ==
    data.short_breaks_finished <= data.settings.short_breaks_number

====
